---- MODULE Spec2Model ----
(***************************************************************************)
(* Link-unfurling pipeline of the bot: the code-forge listener             *)
(* (extensions/gitea.py) and the generic-page listener (extensions/ogp.py) *)
(* both registered by main.py.                                             *)
(*                                                                         *)
(* Strings are modelled as sequences of one-character strings, so that     *)
(* the regular expressions, urlparse, PurePosixPath, int(), slicing and    *)
(* strip() are computed character by character as the code computes them.  *)
(***************************************************************************)
EXTENDS Integers, Sequences, FiniteSets, TLC

VARIABLES
    \* ---- one inbound message and the chat channel (discord) ----
    msg,        \* the Message: [author, content]
    sent,       \* channel.send calls that succeeded, in order
    \* ---- extensions/gitea.py on_message ----
    g_pc,       \* "idle" | "loop" | "send" | "done" | "raised"
    g_urls,     \* spans GITEA_URL_PATTERN.findall returned
    g_idx,      \* position of the for loop
    g_embed,    \* embed built for the current url, or None
    g_log,      \* per url: what its chain did (observer of the run)
    \* ---- extensions/ogp.py on_message ----
    o_pc,       \* "idle" | "gather" | "loop" | "send" | "done" | "raised"
    o_urls,     \* spans GSNET_URL_PATTERN.findall returned
    o_task,     \* per url: "pending" | "done" (the get_page coroutines)
    o_result,   \* per url: what get_page returned (None or a Page)
    o_order,    \* indexes of the urls in the order their fetch completed
    o_infos,    \* page_infos, each with the index of its url
    o_idx,      \* position of the for loop over zip(page_embeds, page_infos)
    o_cur,      \* embed and file of the current iteration
    o_log,      \* per url: attachment outcome (observer of the run)
    scratch,    \* scratch directories that exist on disk
    nextDir,    \* name of the next scratch directory
    \* ---- parse_gitea_url on its own ----
    c_url, c_res, c_pc,
    \* ---- the _build_*_embed functions on their own ----
    b_kind, b_data, b_embed, b_pc

pipeVars == <<msg, sent, g_pc, g_urls, g_idx, g_embed, g_log,
              o_pc, o_urls, o_task, o_result, o_order, o_infos, o_idx, o_cur,
              o_log, scratch, nextDir>>
classVars == <<c_url, c_res, c_pc>>
buildVars == <<b_kind, b_data, b_embed, b_pc>>
vars == <<pipeVars, classVars, buildVars>>

\* Optional[T]: None, or Some(x)
None == <<>>
Some(x) == <<x>>
\* the value of an Optional that is not None
The(opt) == opt[1]

(***************************************************************************)
(* Characters and string helpers                                           *)
(***************************************************************************)
Digits == {"0", "1", "2", "3", "4", "5", "6", "7", "8", "9"}
Letters == {"a", "b", "c", "d", "e", "f", "g", "h", "i", "j", "k", "l", "m",
            "n", "o", "p", "q", "r", "s", "t", "u", "v", "w", "x", "y", "z"}

IsDigit(c) == c \in Digits
\* \w of the re module
IsWord(c) == c \in Digits \cup Letters \cup {"_"}
\* the class [-\w./()?%&=!~#] both patterns end with
IsUrlChar(c) ==
    IsWord(c) \/ c \in {"-", ".", "/", "(", ")", "?", "%", "&", "=", "!", "~", "#"}

StartsAt(s, i, lit) ==
    /\ i + Len(lit) - 1 <= Len(s)
    /\ \A k \in 1..Len(lit) : s[i + k - 1] = lit[k]

\* s[i:] of Python with a 0-based i, as a 1-based sequence
Slice(s, i) == SubSeq(s, i + 1, Len(s))
\* s[:n] of Python
Prefix(s, n) == SubSeq(s, 1, IF n < Len(s) THEN n ELSE Len(s))

Min(a, b) == IF a < b THEN a ELSE b

HTTP == <<"h", "t", "t", "p", ":", "/", "/">>

(***************************************************************************)
(* URL recognizers                                                         *)
(***************************************************************************)
\* last index of the longest run of characters satisfying the url class
\* that starts at i (i - 1 when the run is empty)
RECURSIVE UrlCharsEnd(_, _)
UrlCharsEnd(s, i) ==
    IF i <= Len(s) /\ IsUrlChar(s[i]) THEN UrlCharsEnd(s, i + 1) ELSE i - 1

\* \d{,3}: the index after at most three digits starting at i (greedy; the
\* character that must follow is never a digit, so backtracking changes nothing)
RECURSIVE DigitsEnd(_, _, _)
DigitsEnd(s, i, n) ==
    IF n < 3 /\ i <= Len(s) /\ IsDigit(s[i]) THEN DigitsEnd(s, i + 1, n + 1) ELSE i

GITEA_PREFIX ==
    HTTP \o <<"1", "0", ".", "7", "7", ".", "0", ".", "2", "0", "/">>

\* GITEA_URL_PATTERN matched at i: the last index of the match, 0 if none
GiteaMatchEnd(s, i) ==
    IF StartsAt(s, i, GITEA_PREFIX)
    THEN UrlCharsEnd(s, i + Len(GITEA_PREFIX))
    ELSE 0

GSNET_PREFIX == HTTP \o <<"1", "0", ".">>

\* GSNET_URL_PATTERN matched at i: the last index of the match, 0 if none
GsnetMatchEnd(s, i) ==
    IF ~StartsAt(s, i, GSNET_PREFIX) THEN 0
    ELSE LET a == DigitsEnd(s, i + Len(GSNET_PREFIX), 0) IN
         IF ~(a <= Len(s) /\ s[a] = ".") THEN 0
         ELSE LET b == DigitsEnd(s, a + 1, 0) IN
              IF ~(b <= Len(s) /\ s[b] = ".") THEN 0
              ELSE LET c == DigitsEnd(s, b + 1, 0) IN
                   UrlCharsEnd(s, c)

\* findall: leftmost, non-overlapping matches, as <<first, last>> spans
RECURSIVE GiteaFindall(_, _)
GiteaFindall(s, i) ==
    IF i > Len(s) THEN <<>>
    ELSE LET e == GiteaMatchEnd(s, i) IN
         IF e = 0 THEN GiteaFindall(s, i + 1)
         ELSE <<(<<i, e>>)>> \o GiteaFindall(s, e + 1)

RECURSIVE GsnetFindall(_, _)
GsnetFindall(s, i) ==
    IF i > Len(s) THEN <<>>
    ELSE LET e == GsnetMatchEnd(s, i) IN
         IF e = 0 THEN GsnetFindall(s, i + 1)
         ELSE <<(<<i, e>>)>> \o GsnetFindall(s, e + 1)

get_gsnet_urls(string) == GsnetFindall(string, 1)

SpanText(s, span) == SubSeq(s, span[1], span[2])

(***************************************************************************)
(* parse_gitea_url                                                         *)
(***************************************************************************)
\* first index >= i of a character of set cs, Len(s) + 1 if none
RECURSIVE FindChar(_, _, _)
FindChar(s, i, cs) ==
    IF i > Len(s) \/ s[i] \in cs THEN i ELSE FindChar(s, i + 1, cs)

\* urlparse(url).path for an http:// url: what follows the netloc, up to
\* the query or the fragment
UrlPath(url) ==
    LET afterScheme == IF StartsAt(url, 1, HTTP) THEN Len(HTTP) + 1 ELSE 1
        p == FindChar(url, afterScheme, {"/", "?", "#"})
        q == FindChar(url, p, {"?", "#"})
    IN  SubSeq(url, p, q - 1)

\* str.split("/") of a path
RECURSIVE SplitSlash(_)
SplitSlash(s) ==
    LET k == FindChar(s, 1, {"/"}) IN
    IF k > Len(s) THEN <<s>>
    ELSE <<SubSeq(s, 1, k - 1)>> \o SplitSlash(SubSeq(s, k + 1, Len(s)))

RECURSIVE DropEmptyAndDot(_)
DropEmptyAndDot(segs) ==
    IF segs = <<>> THEN <<>>
    ELSE IF Head(segs) = <<>> \/ Head(segs) = <<".">>
         THEN DropEmptyAndDot(Tail(segs))
         ELSE <<Head(segs)>> \o DropEmptyAndDot(Tail(segs))

\* PurePosixPath(path).parts: the root, then the segments that are neither
\* empty nor "." (exactly two leading slashes are kept as the root "//")
PosixParts(path) ==
    LET segs == DropEmptyAndDot(SplitSlash(path))
        root == IF StartsAt(path, 1, <<"/", "/">>) /\ ~StartsAt(path, 1, <<"/", "/", "/">>)
                THEN <<(<<"/", "/">>)>>
                ELSE IF StartsAt(path, 1, <<"/">>) THEN <<(<<"/">>)>> ELSE <<>>
    IN  root \o segs

DigitValue(c) ==
    CASE c = "0" -> 0 [] c = "1" -> 1 [] c = "2" -> 2 [] c = "3" -> 3
      [] c = "4" -> 4 [] c = "5" -> 5 [] c = "6" -> 6 [] c = "7" -> 7
      [] c = "8" -> 8 [] c = "9" -> 9

\* the digits of a literal: digits, single underscores between digits only
DigitsOk(s) ==
    /\ Len(s) >= 1
    /\ \A k \in 1..Len(s) : IsDigit(s[k]) \/ s[k] = "_"
    /\ IsDigit(s[1]) /\ IsDigit(s[Len(s)])
    /\ \A k \in 1..(Len(s) - 1) : ~(s[k] = "_" /\ s[k + 1] = "_")

RECURSIVE DigitsValue(_, _)
DigitsValue(s, acc) ==
    IF s = <<>> THEN acc
    ELSE IF Head(s) = "_" THEN DigitsValue(Tail(s), acc)
         ELSE DigitsValue(Tail(s), 10 * acc + DigitValue(Head(s)))

HasSign(s) == Len(s) >= 1 /\ s[1] \in {"-", "+"}
Unsigned(s) == IF HasSign(s) THEN Tail(s) ELSE s

\* int(s) raises ValueError unless s is an optional sign and a literal
PyIntOk(s) == DigitsOk(Unsigned(s))
PyIntValue(s) ==
    IF HasSign(s) /\ s[1] = "-"
    THEN 0 - DigitsValue(Unsigned(s), 0)
    ELSE DigitsValue(Unsigned(s), 0)

ISSUES == <<"i", "s", "s", "u", "e", "s">>
PULLS == <<"p", "u", "l", "l", "s">>
COMMIT == <<"c", "o", "m", "m", "i", "t">>

GiteaResource(rtype, owner, repo, number, sha, url) ==
    [resource_type |-> rtype, owner |-> owner, repo |-> repo,
     number |-> number, sha |-> sha, url |-> url]

\* the except clause left out: the resource is built with no number
NumberedResourceNoCatch(rtype, owner, repo, seg, url) ==
    GiteaResource(rtype, owner, Some(repo),
                  IF PyIntOk(seg) THEN Some(PyIntValue(seg)) ELSE None, None, url)

\* try: number = int(parts[4]) / except ValueError: UNKNOWN / the resource
NumberedResource(rtype, owner, repo, seg, url) ==
    IF ~PyIntOk(seg)
    THEN GiteaResource("UNKNOWN", owner, None, None, None, url)
    ELSE GiteaResource(rtype, owner, Some(repo), Some(PyIntValue(seg)), None, url)

\* parts[k] of the code is parts[k + 1] here
parse_gitea_url(url) ==
    LET parts == PosixParts(UrlPath(url)) IN
    IF Len(parts) < 2 THEN GiteaResource("UNKNOWN", <<>>, None, None, None, url)
    ELSE IF Len(parts) = 2 THEN GiteaResource("USER", parts[2], None, None, None, url)
    ELSE IF Len(parts) = 3 THEN GiteaResource("REPO", parts[2], Some(parts[3]), None, None, url)
    ELSE IF Len(parts) >= 5 /\ parts[4] = ISSUES
         THEN NumberedResource("ISSUE", parts[2], parts[3], parts[5], url)
    ELSE IF Len(parts) >= 5 /\ parts[4] = PULLS
         THEN NumberedResource("PULL_REQUEST", parts[2], parts[3], parts[5], url)
    ELSE IF Len(parts) >= 5 /\ parts[4] = COMMIT
         THEN GiteaResource("COMMIT", parts[2], Some(parts[3]), None, Some(parts[5]), url)
    ELSE GiteaResource("UNKNOWN", parts[2], None, None, None, url)

PipeIdle ==
    /\ msg = None /\ sent = <<>>
    /\ g_pc = "off" /\ g_urls = <<>> /\ g_idx = 0 /\ g_embed = None /\ g_log = <<>>
    /\ o_pc = "off" /\ o_urls = <<>> /\ o_task = <<>> /\ o_result = <<>>
    /\ o_order = <<>> /\ o_infos = <<>> /\ o_idx = 0 /\ o_cur = None /\ o_log = <<>>
    /\ scratch = {} /\ nextDir = 0

ClassIdle == c_url = None /\ c_res = None /\ c_pc = "off"
BuildIdle == b_kind = None /\ b_data = None /\ b_embed = None /\ b_pc = "off"

(***************************************************************************)
(* Preview builders of gitea.py                                            *)
(***************************************************************************)
TRUNC_LIMIT == 200
ELLIPSIS == <<".", ".", ".">>
Whitespace == {" ", "\n", "\t"}

\* data.get(key, "") or "": an absent or null value reads as ""
OrEmpty(opt) == IF opt = None THEN <<>> ELSE The(opt)

\* body[:200] + ("..." if len(body) > 200 else "")
TruncateWithEllipsis(body) ==
    Prefix(body, TRUNC_LIMIT) \o (IF Len(body) > TRUNC_LIMIT THEN ELLIPSIS ELSE <<>>)

RECURSIVE LStrip(_)
LStrip(s) == IF s # <<>> /\ Head(s) \in Whitespace THEN LStrip(Tail(s)) ELSE s

RECURSIVE RStrip(_)
RStrip(s) ==
    IF s # <<>> /\ s[Len(s)] \in Whitespace THEN RStrip(SubSeq(s, 1, Len(s) - 1)) ELSE s

\* str.strip()
Strip(s) == RStrip(LStrip(s))

\* message.split("\n", 1)
SplitFirstLine(message) ==
    LET k == FindChar(message, 1, {"\n"}) IN
    IF k > Len(message) THEN <<message>>
    ELSE <<SubSeq(message, 1, k - 1), SubSeq(message, k + 1, Len(message))>>

\* lines[1].strip() if len(lines) > 1 else ""
CommitRest(message) ==
    LET lines == SplitFirstLine(message) IN
    IF Len(lines) > 1 THEN Strip(lines[2]) ELSE <<>>

\* _parse_datetime raises ValueError on a value fromisoformat rejects;
\* a timestamp is "iso" or "junk", and absent (None) is not parsed
TimestampRaises(data) == data.timestamp # None /\ The(data.timestamp) = "junk"

\* the outcome of a call: a value, or the exception that left it
Returned(v) == [exc |-> "none", value |-> v]
Raised(e) == [exc |-> e, value |-> <<>>]

Embed(kind, url, description) ==
    [kind |-> kind, url |-> url, description |-> description]

_build_repo_embed(data, url) ==
    IF TimestampRaises(data) THEN Raised("ValueError")
    ELSE Returned(Embed("REPO", url, OrEmpty(data.description)))

_build_issue_embed(data, resource) ==
    IF TimestampRaises(data) THEN Raised("ValueError")
    ELSE Returned(Embed("ISSUE", resource.url, TruncateWithEllipsis(OrEmpty(data.body))))

_build_pull_embed(data, resource) ==
    IF TimestampRaises(data) THEN Raised("ValueError")
    ELSE Returned(Embed("PULL_REQUEST", resource.url,
                        TruncateWithEllipsis(OrEmpty(data.body))))

_build_commit_embed(data, resource) ==
    IF TimestampRaises(data) THEN Raised("ValueError")
    ELSE Returned(Embed("COMMIT", resource.url,
                        Prefix(CommitRest(OrEmpty(data.message)), TRUNC_LIMIT)))

_build_user_embed(data, url) ==
    IF TimestampRaises(data) THEN Raised("ValueError")
    ELSE Returned(Embed("USER", url, OrEmpty(data.description)))

\* the metadata document of a REST call, with the keys the builders read
Metadata(body, message, description, timestamp) ==
    [empty |-> FALSE, body |-> body, message |-> message,
     description |-> description, timestamp |-> timestamp]

\* the document {}: no key at all
EmptyDocument ==
    [empty |-> TRUE, body |-> None, message |-> None, description |-> None,
     timestamp |-> None]

OWNER == <<"a">>
REPO == <<"b">>

(***************************************************************************)
(* The builders on their own: the metadata is drawn from bounded bodies    *)
(***************************************************************************)
MaxBodyLen == 202
MaxPad == 1

\* a text of n characters
Xs(n) == [k \in 1..n |-> "x"]
Spaces(n) == [k \in 1..n |-> " "]

BuildResource(kind) ==
    GiteaResource(kind, OWNER, Some(REPO), None, None, GITEA_PREFIX \o <<"a", "/", "b">>)

Bodies == {None} \cup {Some(Xs(n)) : n \in 0..MaxBodyLen}

CommitMessages ==
    {None, Some(<<"f">>)} \cup
    {Some(<<"f", "\n">> \o Spaces(l) \o Xs(n) \o Spaces(r)) :
        l \in 0..MaxPad, r \in 0..MaxPad, n \in 0..MaxBodyLen}

InitBuild ==
    /\ b_kind \in {"ISSUE", "PULL_REQUEST", "COMMIT"}
    /\ b_data \in
         IF b_kind = "COMMIT"
         THEN {Metadata(None, m, None, Some("iso")) : m \in CommitMessages}
         ELSE {Metadata(b, None, None, Some("iso")) : b \in Bodies}
    /\ b_embed = None
    /\ b_pc = "call"
    /\ PipeIdle /\ ClassIdle

BuildIssue ==
    /\ b_pc = "call" /\ b_kind = "ISSUE"
    /\ b_embed' = _build_issue_embed(b_data, BuildResource(b_kind))
    /\ b_pc' = "returned"
    /\ UNCHANGED <<b_kind, b_data, pipeVars, classVars>>

BuildPull ==
    /\ b_pc = "call" /\ b_kind = "PULL_REQUEST"
    /\ b_embed' = _build_pull_embed(b_data, BuildResource(b_kind))
    /\ b_pc' = "returned"
    /\ UNCHANGED <<b_kind, b_data, pipeVars, classVars>>

BuildCommit ==
    /\ b_pc = "call" /\ b_kind = "COMMIT"
    /\ b_embed' = _build_commit_embed(b_data, BuildResource(b_kind))
    /\ b_pc' = "returned"
    /\ UNCHANGED <<b_kind, b_data, pipeVars, classVars>>

NextBuild == BuildIssue \/ BuildPull \/ BuildCommit

SpecBuild == InitBuild /\ [][NextBuild]_vars

\* the body the description is cut from: the issue or pull request body,
\* the stripped remainder of the commit message
b_body ==
    IF b_kind = "COMMIT" THEN CommitRest(OrEmpty(b_data.message))
    ELSE OrEmpty(b_data.body)

\* C8: for a body of length L the description of an issue, pull request or
\* commit preview has length min(L, 200), plus 3 if and only if L > 200.
TruncationLaw ==
    b_pc = "returned" =>
        /\ b_embed.exc = "none"
        /\ Len(b_embed.value.description) =
               Min(Len(b_body), TRUNC_LIMIT)
               + (IF Len(b_body) > TRUNC_LIMIT THEN Len(ELLIPSIS) ELSE 0)

(***************************************************************************)
(* Page, PageInfo and the attachment helpers of ogp.py                      *)
(***************************************************************************)
OG_TITLE_TEXT == <<"o", "g">>
TITLE_TEXT == <<"t", "i">>
OG_DESCRIPTION_TEXT == <<"d">>
IMAGE_URL == HTTP \o <<"1", "0", ".", "0", ".", "0", ".", "9", "/", "i", ".", "p", "n", "g">>
FAVICON_PATH == <<"/", "f", "a", "v", "i", "c", "o", "n", ".", "i", "c", "o">>

\* the html of a page, by the tags get_info selects: a meta tag is
\* "absent", or present with ("content") or without ("nocontent") its
\* content attribute; the title tag is "absent" or "present"
Html(og_title, title, og_description, og_image) ==
    [og_title |-> og_title, title |-> title, og_description |-> og_description,
     og_image |-> og_image]

Page(url, html) == [url |-> url, html |-> html]

PageInfo(title, url, description, image_url, favicon_url) ==
    [title |-> title, url |-> url, description |-> description,
     image_url |-> image_url, favicon_url |-> favicon_url]

\* self.url[8:]
UrlTitle(url) == Slice(url, 8)

\* tag["content"] raises KeyError on a tag without the attribute
get_info(page) ==
    LET h == page.html IN
    IF "nocontent" \in {h.og_title, h.og_description, h.og_image}
    THEN Raised("KeyError")
    ELSE Returned(PageInfo(
            IF h.og_title = "content" THEN OG_TITLE_TEXT
            ELSE IF h.title = "present" THEN TITLE_TEXT
            ELSE UrlTitle(page.url),
            page.url,
            IF h.og_description = "content" THEN Some(OG_DESCRIPTION_TEXT) ELSE None,
            IF h.og_image = "content" THEN Some(IMAGE_URL) ELSE None,
            None))

\* urlparse(url).scheme + "://" + urlparse(url).netloc of an http:// url
SchemeAndNetloc(url) ==
    SubSeq(url, 1, FindChar(url, Len(HTTP) + 1, {"/", "?", "#"}) - 1)

\* the Embed to_embed returns
to_embed(info) ==
    [title |-> info.title, url |-> info.url,
     description |-> OrEmpty(info.description),
     image |-> None, thumbnail |-> None]

\* the PageInfo as to_embed leaves it: favicon_url is set if there is no image
AfterToEmbed(info) ==
    IF info.image_url = None
    THEN [info EXCEPT !.favicon_url = Some(SchemeAndNetloc(info.url) \o FAVICON_PATH)]
    ELSE info

\* filter(None, all_pages), each page with its position in all_pages
RECURSIVE FoundPages(_, _)
FoundPages(all_pages, k) ==
    IF k > Len(all_pages) THEN <<>>
    ELSE IF all_pages[k] = None THEN FoundPages(all_pages, k + 1)
    ELSE <<[idx |-> k, page |-> The(all_pages[k])]>> \o FoundPages(all_pages, k + 1)

\* list(map(lambda p: p.get_info(), found_pages)): the infos built until the
\* first get_info that raises
RECURSIVE MapGetInfo(_)
MapGetInfo(found) ==
    IF found = <<>> THEN Returned(<<>>)
    ELSE LET r == get_info(Head(found).page) IN
         IF r.exc # "none" THEN [exc |-> r.exc, value |-> <<>>]
         ELSE LET rest == MapGetInfo(Tail(found)) IN
              [exc |-> rest.exc,
               value |-> <<[idx |-> Head(found).idx,
                            info |-> AfterToEmbed(r.value),
                            embed |-> to_embed(r.value)]>> \o rest.value]

\* the results in the order the fetches completed
GatherAsCompleted(results, order) == [k \in 1..Len(order) |-> results[order[k]]]

\* asyncio.gather: the results in the order of the awaitables passed
GatherResults(results, order) == [k \in 1..Len(results) |-> results[k]]

(***************************************************************************)
(* One inbound message, delivered to both listeners                        *)
(***************************************************************************)
MaxUrls == 2

U_REPO == GITEA_PREFIX \o <<"a", "/", "b">>
U_ISSUE == GITEA_PREFIX \o <<"a", "/", "b", "/">> \o ISSUES \o <<"/", "4">>
U_BAD == GITEA_PREFIX \o <<"a", "/", "b", "/">> \o ISSUES \o <<"/", "x">>
U_PAGE1 == HTTP \o <<"1", "0", ".", "0", ".", "0", ".", "1", "/", "p">>
U_PAGE2 == HTTP \o <<"1", "0", ".", "0", ".", "0", ".", "2", "/", "q">>

Words == {U_REPO, U_ISSUE, U_BAD, U_PAGE1, U_PAGE2}

RECURSIVE JoinSpace(_)
JoinSpace(words) ==
    IF words = <<>> THEN <<>>
    ELSE IF Len(words) = 1 THEN Head(words)
    ELSE Head(words) \o <<" ">> \o JoinSpace(Tail(words))

RECURSIVE WordSeqs(_)
WordSeqs(n) ==
    IF n = 0 THEN {<<>>}
    ELSE {Append(p, w) : p \in WordSeqs(n - 1), w \in Words}

Contents == {JoinSpace(ws) : ws \in UNION {WordSeqs(n) : n \in 0..MaxUrls}}

\* message.author: a user, this bot, or another bot
Authors == {"user", "self", "otherbot"}
\* message.author.bot
AuthorIsBot(author) == author \in {"self", "otherbot"}

\* what the forge may answer to one REST call: no metadata (non-200, network
\* error, unparseable json), the empty document, or a document
Responses ==
    {None, Some(EmptyDocument),
     Some(Metadata(Some(Xs(3)), Some(<<"f", "\n", "x">>), None, Some("iso"))),
     Some(Metadata(Some(Xs(3)), Some(<<"f", "\n", "x">>), None, Some("junk")))}

\* what a web server may answer to get_page: no page, or a page
Htmls ==
    {Html("content", "present", "content", "content"),
     Html("absent", "absent", "absent", "absent"),
     Html("absent", "present", "absent", "nocontent")}

gVars == <<g_pc, g_urls, g_idx, g_embed, g_log>>
oVars == <<o_pc, o_urls, o_task, o_result, o_order, o_infos, o_idx, o_cur,
           o_log, scratch, nextDir>>

Init ==
    /\ msg \in [author : Authors, content : Contents]
    /\ sent = <<>>
    /\ g_pc = "idle" /\ g_urls = <<>> /\ g_idx = 0 /\ g_embed = None /\ g_log = <<>>
    /\ o_pc = "idle" /\ o_urls = <<>> /\ o_task = <<>> /\ o_result = <<>>
    /\ o_order = <<>> /\ o_infos = <<>> /\ o_idx = 0 /\ o_cur = None /\ o_log = <<>>
    /\ scratch = {} /\ nextDir = 1
    /\ ClassIdle /\ BuildIdle

\* ---------------------------------------------------------------- gitea.py

\* the typed REST call and the builder of the resource's kind
GiteaBuild(resource, data) ==
    CASE resource.resource_type = "REPO" -> _build_repo_embed(data, resource.url)
      [] resource.resource_type = "ISSUE" -> _build_issue_embed(data, resource)
      [] resource.resource_type = "PULL_REQUEST" -> _build_pull_embed(data, resource)
      [] resource.resource_type = "COMMIT" -> _build_commit_embed(data, resource)
      [] resource.resource_type = "USER" -> _build_user_embed(data, resource.url)

\* the for loop moves to the next url, or the handler returns
GiteaNextPc(idx) == IF idx < Len(g_urls) THEN "loop" ELSE "done"

\* on_message up to the for loop
GiteaStart ==
    /\ g_pc = "idle"
    /\ LET urls == GiteaFindall(msg.content, 1) IN
       IF AuthorIsBot(msg.author) \/ urls = <<>>
       THEN /\ g_pc' = "done"
            /\ UNCHANGED <<g_urls, g_idx, g_log>>
       ELSE /\ g_pc' = "loop"
            /\ g_urls' = urls
            /\ g_idx' = 1
            /\ g_log' = [k \in 1..Len(urls) |-> [fetch |-> "none", build |-> "none"]]
    /\ UNCHANGED <<g_embed, msg, sent, oVars, classVars, buildVars>>

\* one iteration of the for loop, up to the send
GiteaUrl ==
    /\ g_pc = "loop"
    /\ LET url == SpanText(msg.content, g_urls[g_idx])
           resource == parse_gitea_url(url)
       IN
       IF resource.resource_type = "UNKNOWN"
       THEN /\ g_pc' = GiteaNextPc(g_idx)
            /\ g_idx' = g_idx + 1
            /\ UNCHANGED <<g_embed, g_log>>
       ELSE \E data \in Responses :
            IF data = None \/ The(data).empty
            THEN /\ g_pc' = GiteaNextPc(g_idx)
                 /\ g_idx' = g_idx + 1
                 /\ g_embed' = None
                 /\ g_log' = [g_log EXCEPT ![g_idx].fetch =
                                 IF data = None THEN "failed" ELSE "empty"]
            ELSE LET built == GiteaBuild(resource, The(data)) IN
                 IF built.exc # "none"
                 THEN /\ g_pc' = GiteaNextPc(g_idx)
                      /\ g_idx' = g_idx + 1
                      /\ g_embed' = None
                      /\ g_log' = [g_log EXCEPT ![g_idx] =
                                      [fetch |-> "ok", build |-> "raised"]]
                 ELSE /\ g_pc' = "send"
                      /\ g_embed' = Some(built.value)
                      /\ g_log' = [g_log EXCEPT ![g_idx] =
                                      [fetch |-> "ok", build |-> "ok"]]
                      /\ UNCHANGED g_idx
    /\ UNCHANGED <<g_urls, msg, sent, oVars, classVars, buildVars>>

\* await message.channel.send(embed=embed): accepted, or it raises
GiteaSend ==
    /\ g_pc = "send"
    /\ \E accepted \in BOOLEAN :
        IF accepted
        THEN /\ sent' = Append(sent, [family |-> "gitea", idx |-> g_idx,
                                      url |-> The(g_embed).url,
                                      embed |-> The(g_embed), file |-> None])
             /\ g_pc' = GiteaNextPc(g_idx)
             /\ g_idx' = g_idx + 1
        ELSE /\ g_pc' = "HTTPException"
             /\ UNCHANGED <<sent, g_idx>>
    /\ UNCHANGED <<g_urls, g_embed, g_log, msg, oVars, classVars, buildVars>>

\* ------------------------------------------------------------------ ogp.py

\* on_message up to the gather: every get_page coroutine is started
OgpStart ==
    /\ o_pc = "idle"
    /\ LET gsnet_urls == get_gsnet_urls(msg.content) IN
       IF Len(gsnet_urls) = 0
       THEN /\ o_pc' = "done"
            /\ UNCHANGED <<o_urls, o_task, o_result, o_log>>
       ELSE /\ o_pc' = "gather"
            /\ o_urls' = gsnet_urls
            /\ o_task' = [k \in 1..Len(gsnet_urls) |-> "pending"]
            /\ o_result' = [k \in 1..Len(gsnet_urls) |-> None]
            /\ o_log' = [k \in 1..Len(gsnet_urls) |-> "none"]
    /\ UNCHANGED <<o_order, o_infos, o_idx, o_cur, scratch, nextDir,
                   msg, sent, gVars, classVars, buildVars>>

\* get_page of one url completes: None (non-200 or any exception), or a Page
OgpFetchDone(k) ==
    /\ o_pc = "gather"
    /\ o_task[k] = "pending"
    /\ \E page \in {None} \cup
                   {Some(Page(SpanText(msg.content, o_urls[k]), h)) : h \in Htmls} :
        o_result' = [o_result EXCEPT ![k] = page]
    /\ o_task' = [o_task EXCEPT ![k] = "done"]
    /\ o_order' = Append(o_order, k)
    /\ UNCHANGED <<o_pc, o_urls, o_infos, o_idx, o_cur, o_log, scratch, nextDir,
                   msg, sent, gVars, classVars, buildVars>>

OgpNextPc(idx, infos) == IF idx < Len(infos) THEN "loop" ELSE "done"

\* the gather returns; found_pages, page_infos and page_embeds are built
OgpBuild ==
    /\ o_pc = "gather"
    /\ \A k \in 1..Len(o_urls) : o_task[k] = "done"
    /\ LET all_pages == GatherResults(o_result, o_order)
           infos == MapGetInfo(FoundPages(all_pages, 1))
       IN
       IF infos.exc # "none"
       THEN /\ o_pc' = infos.exc
            /\ UNCHANGED <<o_infos, o_idx>>
       ELSE /\ o_infos' = infos.value
            /\ o_idx' = 1
            /\ o_pc' = OgpNextPc(0, infos.value)
    /\ UNCHANGED <<o_urls, o_task, o_result, o_order, o_cur, o_log, scratch, nextDir,
                   msg, sent, gVars, classVars, buildVars>>

\* Path(urlparse(image_url).path).name of the image url of the pages
IMAGE_NAME == <<"i", ".", "p", "n", "g">>
FAVICON_NAME == <<"f", "a", "v", "i", "c", "o", "n", ".", "p", "n", "g">>
ATTACHMENT == <<"a", "t", "t", "a", "c", "h", "m", "e", "n", "t", ":", "/", "/">>

\* one iteration of the for loop, up to the send: the scratch directory is
\* created, the image or the favicon is downloaded (and the favicon
\* converted); a failure of any of these leaves file = None
OgpAttach ==
    /\ o_pc = "loop"
    /\ LET entry == o_infos[o_idx]
           temp_dir == nextDir
       IN
       /\ scratch' = scratch \cup {temp_dir}
       /\ nextDir' = nextDir + 1
       /\ IF entry.info.image_url # None
          THEN \E outcome \in {"ok", "download_failed"} :
               /\ o_cur' = IF outcome = "ok"
                           THEN [embed |-> [entry.embed EXCEPT
                                              !.image = Some(ATTACHMENT \o IMAGE_NAME)],
                                 file |-> Some(IMAGE_NAME), temp_dir |-> temp_dir]
                           ELSE [embed |-> entry.embed, file |-> None,
                                 temp_dir |-> temp_dir]
               /\ o_log' = [o_log EXCEPT ![entry.idx] = outcome]
          ELSE \E outcome \in {"ok", "download_failed", "convert_failed"} :
               /\ o_cur' = IF outcome = "ok"
                           THEN [embed |-> [entry.embed EXCEPT
                                              !.thumbnail = Some(ATTACHMENT \o FAVICON_NAME)],
                                 file |-> Some(FAVICON_NAME), temp_dir |-> temp_dir]
                           ELSE [embed |-> entry.embed, file |-> None,
                                 temp_dir |-> temp_dir]
               /\ o_log' = [o_log EXCEPT ![entry.idx] = outcome]
    /\ o_pc' = "send"
    /\ UNCHANGED <<o_urls, o_task, o_result, o_order, o_infos, o_idx,
                   msg, sent, gVars, classVars, buildVars>>

\* await message.channel.send(embed=embed, file=file), then
\* temp_dir.cleanup(); a send that raises leaves the handler before it
OgpSend ==
    /\ o_pc = "send"
    /\ \E accepted \in BOOLEAN :
        IF accepted
        THEN /\ sent' = Append(sent, [family |-> "ogp", idx |-> o_infos[o_idx].idx,
                                      url |-> o_cur.embed.url,
                                      embed |-> o_cur.embed, file |-> o_cur.file])
             /\ scratch' = scratch \ {o_cur.temp_dir}
             /\ o_pc' = OgpNextPc(o_idx, o_infos)
             /\ o_idx' = o_idx + 1
        ELSE /\ o_pc' = "HTTPException"
             /\ UNCHANGED <<sent, scratch, o_idx>>
    /\ UNCHANGED <<o_urls, o_task, o_result, o_order, o_infos, o_cur, o_log,
                   nextDir, msg, gVars, classVars, buildVars>>

\* the TemporaryDirectory object of a handler that raised is collected at
\* some later time, or never before the process ends: its finalizer then
\* removes the directory
OgpCollect ==
    /\ o_pc = "HTTPException"
    /\ scratch # {}
    /\ scratch' = {}
    /\ UNCHANGED <<o_pc, o_urls, o_task, o_result, o_order, o_infos, o_idx, o_cur,
                   o_log, nextDir, msg, sent, gVars, classVars, buildVars>>

Next ==
    \/ GiteaStart
    \/ GiteaUrl
    \/ GiteaSend
    \/ OgpStart
    \/ \E k \in 1..Len(o_urls) : OgpFetchDone(k)
    \/ OgpBuild
    \/ OgpAttach
    \/ OgpSend
    \/ OgpCollect

Spec == Init /\ [][Next]_vars

(***************************************************************************)
(* The generic-page listener alone, on messages of page urls               *)
(***************************************************************************)
PageWords == {U_PAGE1, U_PAGE2}

RECURSIVE PageWordSeqs(_)
PageWordSeqs(n) ==
    IF n = 0 THEN {<<>>}
    ELSE {Append(p, w) : p \in PageWordSeqs(n - 1), w \in PageWords}

PageContents == {JoinSpace(ws) : ws \in UNION {PageWordSeqs(n) : n \in 0..MaxUrls}}

InitOgp ==
    /\ msg \in [author : {"user"}, content : PageContents]
    /\ sent = <<>>
    /\ g_pc = "off" /\ g_urls = <<>> /\ g_idx = 0 /\ g_embed = None /\ g_log = <<>>
    /\ o_pc = "idle" /\ o_urls = <<>> /\ o_task = <<>> /\ o_result = <<>>
    /\ o_order = <<>> /\ o_infos = <<>> /\ o_idx = 0 /\ o_cur = None /\ o_log = <<>>
    /\ scratch = {} /\ nextDir = 1
    /\ ClassIdle /\ BuildIdle

NextOgp ==
    \/ OgpStart
    \/ \E k \in 1..Len(o_urls) : OgpFetchDone(k)
    \/ OgpBuild
    \/ OgpAttach
    \/ OgpSend
    \/ OgpCollect

SpecOgp == InitOgp /\ [][NextOgp]_vars

(***************************************************************************)
(* Properties of the handlers                                              *)
(***************************************************************************)
Finished == {"done", "KeyError", "HTTPException"}

RECURSIVE SelectFamily(_, _)
\* the sends of one family, in channel order
SelectFamily(log, family) ==
    IF log = <<>> THEN <<>>
    ELSE IF Head(log).family = family
         THEN <<Head(log)>> \o SelectFamily(Tail(log), family)
         ELSE SelectFamily(Tail(log), family)

SentOgp == SelectFamily(sent, "ogp")
SentGitea == SelectFamily(sent, "gitea")

IsPrefix(a, b) == Len(a) <= Len(b) /\ \A k \in 1..Len(a) : a[k] = b[k]

\* the positions, in message order, of the urls whose page was fetched
RECURSIVE FetchedIdx(_)
FetchedIdx(k) ==
    IF k > Len(o_result) THEN <<>>
    ELSE IF o_result[k] = None THEN FetchedIdx(k + 1)
    ELSE <<k>> \o FetchedIdx(k + 1)

OgpFailedFetches == {k \in 1..Len(o_result) : o_result[k] = None}

\* C1: a message with N recognized urls of which exactly one fetch fails and
\* the others succeed gets exactly N-1 previews, in the order of their urls,
\* and the handler returns without raising. Stated for the generic-page
\* handler, in the runs where the channel accepts every send.
PartialFailureIsolation ==
    (/\ o_pc \in Finished
     /\ o_pc # "HTTPException"
     /\ Len(o_urls) >= 1
     /\ Cardinality(OgpFailedFetches) = 1)
    => /\ o_pc = "done"
       /\ Len(SentOgp) = Len(o_urls) - 1
       /\ [k \in 1..Len(SentOgp) |-> SentOgp[k].idx] = FetchedIdx(1)

\* the number of sends of a family for the url at position k
SendsOf(log, k) == Cardinality({j \in 1..Len(log) : log[j].idx = k})

\* C2: an error raised while parsing or building the preview of one url
\* skips only that url: every sibling whose own chain succeeds has its
\* preview sent, and no exception leaves on_message. Stated for both
\* handlers, in the runs where the channel accepts every send.
BuildErrorIsolation ==
    /\ (g_pc \in Finished /\ g_pc # "HTTPException")
       => /\ g_pc = "done"
          /\ \A k \in 1..Len(g_log) :
                g_log[k] = [fetch |-> "ok", build |-> "ok"] => SendsOf(SentGitea, k) = 1
    /\ (o_pc \in Finished /\ o_pc # "HTTPException")
       => /\ o_pc = "done"
          /\ \A k \in 1..Len(o_result) :
                (o_result[k] # None /\ get_info(The(o_result[k])).exc = "none")
                => SendsOf(SentOgp, k) = 1

\* C3: for a message the bot itself wrote, neither handler starts a fetch
\* or sends a preview.
SelfMessageIgnored ==
    (g_pc # "off" /\ msg.author = "self")
    => /\ sent = <<>>
       /\ \A k \in 1..Len(g_log) : g_log[k].fetch = "none"
       /\ o_task = <<>>

\* C4: once the generic-page handler has returned or raised, no scratch
\* directory it created exists.
ScratchReleased == o_pc \in Finished => scratch = {}

\* C5: no url occurrence of a message is recognized by both patterns: the
\* result sets of the two handlers share no span of the message.
FamiliesDisjoint ==
    \A i \in 1..Len(g_urls) : \A j \in 1..Len(o_urls) : g_urls[i] # o_urls[j]

\* a result of the gather has been consumed
OgpConsumed == o_pc \in {"loop", "send"} \cup Finished /\ o_urls # <<>>

\* C6: every page fetch is started before any result is consumed, and in
\* whatever order the fetches complete, the previews sent are those of the
\* fetched pages in the order of their urls in the message: at any time a
\* prefix of that order, all of it when the handler returns.
OrderPreserved ==
    /\ o_pc = "gather" => Len(o_task) = Len(o_urls)
    /\ OgpConsumed => \A k \in 1..Len(o_urls) : o_task[k] = "done"
    /\ o_pc # "off" =>
         /\ IsPrefix([k \in 1..Len(SentOgp) |-> SentOgp[k].url],
                     [k \in 1..Len(FetchedIdx(1)) |->
                         SpanText(msg.content, o_urls[FetchedIdx(1)[k]])])
         /\ IsPrefix([k \in 1..Len(SentOgp) |-> SentOgp[k].idx], FetchedIdx(1))
         /\ (o_pc = "done" /\ o_urls # <<>>) => Len(SentOgp) = Len(FetchedIdx(1))

\* two pages whose fetches completed in the reverse of their order in the
\* message were both previewed
OrderPreservedWitness ==
    /\ o_pc = "done"
    /\ Len(o_order) >= 2
    /\ o_order[1] > o_order[2]
    /\ Len(SentOgp) >= 2
    /\ SentOgp[1].url # SentOgp[2].url

\* the pages get_info returned an info for
OgpParsed ==
    IF o_pc = "KeyError"
    THEN LET found == FoundPages(GatherResults(o_result, o_order), 1)
             firstBad == CHOOSE j \in 1..Len(found) :
                            /\ get_info(found[j].page).exc # "none"
                            /\ \A i \in 1..(j - 1) : get_info(found[i].page).exc = "none"
         IN  {found[i].idx : i \in 1..(firstBad - 1)}
    ELSE {o_infos[i].idx : i \in 1..Len(o_infos)}

\* C7: every page fetched and parsed successfully gets exactly one preview,
\* whether the download of its image or favicon, or the conversion, fails or
\* not; after a failure the preview has no attachment and no image or
\* thumbnail reference. Stated in the runs where the channel accepts every
\* send.
AttachmentFailureKeepsPreview ==
    (o_pc \in Finished /\ o_pc # "HTTPException")
    => /\ \A k \in OgpParsed : SendsOf(SentOgp, k) = 1
       /\ \A j \in 1..Len(SentOgp) :
             o_log[SentOgp[j].idx] \in {"download_failed", "convert_failed"}
             => /\ SentOgp[j].file = None
                /\ SentOgp[j].embed.image = None
                /\ SentOgp[j].embed.thumbnail = None

\* C10: the title is og:title, else the title tag, else the url with exactly
\* its scheme prefix "http://" removed.
TitlePrecedence ==
    \A i \in 1..Len(o_infos) :
        LET page == The(o_result[o_infos[i].idx]) IN
        o_infos[i].info.title =
            IF page.html.og_title = "content" THEN OG_TITLE_TEXT
            ELSE IF page.html.title = "present" THEN TITLE_TEXT
            ELSE SubSeq(page.url, Len(HTTP) + 1, Len(page.url))

(***************************************************************************)
(* parse_gitea_url on its own: the url is drawn from bounded paths          *)
(***************************************************************************)
MaxSegs == 5
MaxSegLen == 3

RECURSIVE SeqsOver(_, _)
\* the sequences over alphabet A of length exactly n
SeqsOver(A, n) ==
    IF n = 0 THEN {<<>>}
    ELSE {Append(p, c) : p \in SeqsOver(A, n - 1), c \in A}

NumAlphabet == {"4", "2", "-", "_", "x"}
NumSegs == UNION {SeqsOver(NumAlphabet, n) : n \in 1..MaxSegLen}

SegSet(k) ==
    CASE k = 1 -> {OWNER}
      [] k = 2 -> {REPO}
      [] k = 3 -> {ISSUES, PULLS, COMMIT, <<"w">>}
      [] k = 4 -> NumSegs \cup {<<".">>}
      [] OTHER -> {<<"x">>, <<"7">>}

RECURSIVE SegSeqs(_)
SegSeqs(n) ==
    IF n = 0 THEN {<<>>}
    ELSE {Append(p, s) : p \in SegSeqs(n - 1), s \in SegSet(n)}

RECURSIVE JoinSlash(_)
JoinSlash(segs) ==
    IF segs = <<>> THEN <<>>
    ELSE IF Len(segs) = 1 THEN Head(segs)
    ELSE Head(segs) \o <<"/">> \o JoinSlash(Tail(segs))

UrlTails == {<<>>, <<"/">>, <<"?", "4">>}

ClassifyUrls ==
    {GITEA_PREFIX \o JoinSlash(segs) \o t :
        segs \in UNION {SegSeqs(n) : n \in 0..MaxSegs}, t \in UrlTails}

InitClassify ==
    /\ c_url \in ClassifyUrls
    /\ c_res = None
    /\ c_pc = "call"
    /\ PipeIdle /\ BuildIdle

Classify ==
    /\ c_pc = "call"
    /\ c_res' = parse_gitea_url(c_url)
    /\ c_pc' = "returned"
    /\ UNCHANGED <<c_url, pipeVars, buildVars>>

NextClassify == Classify

SpecClassify == InitClassify /\ [][NextClassify]_vars

\* the path segments of the classified url, root first
c_parts == PosixParts(UrlPath(c_url))

\* C9: a url whose third path segment is "issues" or "pulls" and whose
\* fourth segment is missing or is no integer for int() classifies as
\* UNKNOWN; an ISSUE or PULL_REQUEST descriptor always carries a number,
\* the integer value of the fourth segment. int() is the only call of
\* parse_gitea_url that raises, and a descriptor is returned for every url.
ClassifyNumberValid ==
    c_pc = "returned" =>
        /\ c_res.resource_type \in
               {"REPO", "ISSUE", "PULL_REQUEST", "COMMIT", "USER", "UNKNOWN"}
        /\ (/\ Len(c_parts) >= 4
            /\ c_parts[4] \in {ISSUES, PULLS}
            /\ (Len(c_parts) < 5 \/ ~PyIntOk(c_parts[5])))
           => c_res.resource_type = "UNKNOWN"
        /\ c_res.resource_type \in {"ISSUE", "PULL_REQUEST"}
           => /\ c_res.number # None
              /\ Len(c_parts) >= 5
              /\ PyIntOk(c_parts[5])
              /\ The(c_res.number) = PyIntValue(c_parts[5])

\* a url with a non-numeric issue number was classified, as UNKNOWN
ClassifyNumberValidWitness ==
    /\ c_pc = "returned"
    /\ Len(c_parts) >= 5
    /\ c_parts[4] = ISSUES
    /\ ~PyIntOk(c_parts[5])
    /\ c_res.resource_type = "UNKNOWN"

====
